---- MODULE Spec2Model ----
(***************************************************************************)
(* Booking write path of the resource-booking backend.                     *)
(*                                                                         *)
(*   core/models.py       Booking (the stored rows, unique_together)       *)
(*   core/serializers.py  BookingSerializer.validate (admission engine)    *)
(*   core/views.py        BookingViewSet (create / update / destroy)       *)
(*                                                                         *)
(* Instants are integers counting minutes.  One request reads the clock    *)
(* at a single instant of that grid.                                       *)
(***************************************************************************)
EXTENDS Integers, FiniteSets, Sequences, TLC

VARIABLES bookings, nextId, now, last, handled, inflight, resources

vars == <<bookings, nextId, now, last, handled, inflight, resources>>

(***************************************************************************)
(* Bounds of the model.                                                    *)
(***************************************************************************)
MaxRequests == 3
MaxSeed == 2
MaxTable == 3
MaxChain == 22

(***************************************************************************)
(* Program constants and value sets.                                       *)
(***************************************************************************)
LeadTime == 30

Statuses == {"pending", "confirmed", "cancelled", "rejected"}

DefaultStatus == "pending"

Inactive == {"cancelled", "rejected"}

Users == {"user1", "admin"}

Staff == {"admin"}

Resources == {"r1", "r2"}

\* Resource rows: the is_available flag of every stored resource.  Every
\* resource stored and enabled (the field default).
AllResources == [r \in Resources |-> TRUE]

Procs == {"p1", "p2"}

\* Instants a client sends: multiples of the lead time.
Grid == {LeadTime, 2 * LeadTime, 3 * LeadTime}

\* Instants the clock shows.
Clock == {0, LeadTime, 2 * LeadTime}

\* Markers of a field that the payload does not carry / of "no booking".
NoTime == -1

NoResource == "none"

NoStatus == "none"

NoId == 0

NoUser == "none"

(***************************************************************************)
(* Payloads (the serializer's `data`).                                     *)
(***************************************************************************)
Has(data, f) ==
    CASE f = "resource" -> data.resource # NoResource
      [] f = "start_time" -> data.start_time # NoTime
      [] f = "end_time" -> data.end_time # NoTime
      [] f = "status" -> data.status # NoStatus
      [] f = "user" -> data.user # NoUser

\* user: the value a request sends for the read-only field `user`.
Payload(r, s, e, st) ==
    [resource |-> r, start_time |-> s, end_time |-> e, status |-> st, user |-> NoUser]

WithUser(data, user) == [data EXCEPT !.user = user]

EmptyPayload == Payload(NoResource, NoTime, NoTime, NoStatus)

\* `'start_time' in data and 'end_time' in data and 'resource' in data`
EngineRuns(data) == Has(data, "start_time") /\ Has(data, "end_time") /\ Has(data, "resource")

Instance(store, id) == CHOOSE b \in store : b.id = id

Ids(store) == {b.id : b \in store}

(***************************************************************************)
(* Conflict Detector: the overlapping_bookings query of validate().        *)
(* exclude = NoId for a new booking (self.instance is None).               *)
(***************************************************************************)
\* Variants of the query with one condition changed.
OverlappingBookings_Containment(store, resource, start_time, end_time, exclude) ==
    {b \in store : /\ b.resource = resource
                   /\ b.start_time <= start_time
                   /\ b.end_time >= end_time
                   /\ b.id # exclude
                   /\ b.status \notin Inactive}

OverlappingBookings_AnyResource(store, resource, start_time, end_time, exclude) ==
    {b \in store : /\ b.start_time < end_time
                   /\ b.end_time > start_time
                   /\ b.id # exclude
                   /\ b.status \notin Inactive}

OverlappingBookings_Closed(store, resource, start_time, end_time, exclude) ==
    {b \in store : /\ b.resource = resource
                   /\ b.start_time <= end_time
                   /\ b.end_time >= start_time
                   /\ b.id # exclude
                   /\ b.status \notin Inactive}

OverlappingBookings_NoExclude(store, resource, start_time, end_time, exclude) ==
    {b \in store : /\ b.resource = resource
                   /\ b.start_time < end_time
                   /\ b.end_time > start_time
                   /\ b.status \notin Inactive}

OverlappingBookings(store, resource, start_time, end_time, exclude) ==
    {b \in store : /\ b.resource = resource
                   /\ b.start_time < end_time
                   /\ b.end_time > start_time
                   /\ b.id # exclude
                   /\ b.status \notin Inactive}

(***************************************************************************)
(* BookingSerializer.validate: the reason of the first failing check, or   *)
(* "valid".  instance = NoId for a create.                                 *)
(***************************************************************************)
\* Variants of validate() with one check changed.
Validate_LeadInclusive(data, instance, store, t) ==
    IF ~EngineRuns(data) THEN "valid"
    ELSE IF instance = NoId /\ data.start_time <= t + LeadTime THEN "lead_time"
    ELSE IF data.start_time >= data.end_time THEN "ordering"
    ELSE IF instance = NoId /\ data.start_time < t THEN "past"
    ELSE IF OverlappingBookings(store, data.resource, data.start_time,
                                data.end_time, instance) # {} THEN "conflict"
    ELSE "valid"

Validate_PastFirst(data, instance, store, t) ==
    IF ~EngineRuns(data) THEN "valid"
    ELSE IF instance = NoId /\ data.start_time < t THEN "past"
    ELSE IF instance = NoId /\ data.start_time < t + LeadTime THEN "lead_time"
    ELSE IF data.start_time >= data.end_time THEN "ordering"
    ELSE IF OverlappingBookings(store, data.resource, data.start_time,
                                data.end_time, instance) # {} THEN "conflict"
    ELSE "valid"

Validate_OrderingFirst(data, instance, store, t) ==
    IF ~EngineRuns(data) THEN "valid"
    ELSE IF data.start_time >= data.end_time THEN "ordering"
    ELSE IF instance = NoId /\ data.start_time < t + LeadTime THEN "lead_time"
    ELSE IF instance = NoId /\ data.start_time < t THEN "past"
    ELSE IF OverlappingBookings(store, data.resource, data.start_time,
                                data.end_time, instance) # {} THEN "conflict"
    ELSE "valid"

Validate_AlwaysLeadTime(data, instance, store, t) ==
    IF ~EngineRuns(data) THEN "valid"
    ELSE IF data.start_time < t + LeadTime THEN "lead_time"
    ELSE IF data.start_time >= data.end_time THEN "ordering"
    ELSE IF instance = NoId /\ data.start_time < t THEN "past"
    ELSE IF OverlappingBookings(store, data.resource, data.start_time,
                                data.end_time, instance) # {} THEN "conflict"
    ELSE "valid"

\* validate() run on the instance with the payload's fields set.
Validate_Merged(data, instance, store, t) ==
    IF instance = NoId
    THEN IF ~EngineRuns(data) THEN "valid"
         ELSE IF data.start_time < t + LeadTime THEN "lead_time"
         ELSE IF data.start_time >= data.end_time THEN "ordering"
         ELSE IF data.start_time < t THEN "past"
         ELSE IF OverlappingBookings(store, data.resource, data.start_time,
                                     data.end_time, instance) # {} THEN "conflict"
         ELSE "valid"
    ELSE LET inst == Instance(store, instance)
             resource == IF Has(data, "resource") THEN data.resource ELSE inst.resource
             start_time == IF Has(data, "start_time") THEN data.start_time ELSE inst.start_time
             end_time == IF Has(data, "end_time") THEN data.end_time ELSE inst.end_time
         IN  IF start_time >= end_time THEN "ordering"
             ELSE IF OverlappingBookings(store, resource, start_time, end_time,
                                         instance) # {} THEN "conflict"
             ELSE "valid"

Validate(data, instance, store, t) ==
    IF ~EngineRuns(data) THEN "valid"
    ELSE IF instance = NoId /\ data.start_time < t + LeadTime THEN "lead_time"
    ELSE IF data.start_time >= data.end_time THEN "ordering"
    ELSE IF instance = NoId /\ data.start_time < t THEN "past"
    ELSE IF OverlappingBookings(store, data.resource, data.start_time,
                                data.end_time, instance) # {} THEN "conflict"
    ELSE "valid"

(***************************************************************************)
(* Slot Suggester: the forward walk of validate() after a conflict.  A     *)
(* suggestion is the pair <<start, end>>; NoSuggestion when the rounds are *)
(* used up.                                                                *)
(***************************************************************************)
SuggestionRounds == 20

NoSuggestion == <<>>

\* all_future_bookings: active rows of the resource ending after now, the
\* instance excluded.
FutureBookings_NoExclude(store, resource, t, exclude) ==
    {b \in store : /\ b.resource = resource
                   /\ b.end_time > t
                   /\ b.status \notin Inactive}

FutureBookings_AnyStatus(store, resource, t, exclude) ==
    {b \in store : /\ b.resource = resource
                   /\ b.end_time > t
                   /\ b.id # exclude}

FutureBookings(store, resource, t, exclude) ==
    {b \in store : /\ b.resource = resource
                   /\ b.end_time > t
                   /\ b.status \notin Inactive
                   /\ b.id # exclude}

\* .order_by('-end_time').first().end_time
MaxEnd(rows) == CHOOSE e \in {b.end_time : b \in rows} : \A b \in rows : b.end_time <= e

\* The clash taken from the list in descending order of end time.
MinEnd_Latest(rows) == CHOOSE e \in {b.end_time : b \in rows} : \A b \in rows : b.end_time <= e

\* .order_by('end_time') ... .first().end_time
MinEnd(rows) == CHOOSE e \in {b.end_time : b \in rows} : \A b \in rows : e <= b.end_time

RECURSIVE Walk(_, _, _, _)
Walk(future, candidate_start, duration, rounds) ==
    IF rounds = 0 THEN NoSuggestion
    ELSE LET candidate_end == candidate_start + duration
             clash == {b \in future : /\ b.start_time < candidate_end
                                      /\ b.end_time > candidate_start}
         IN  IF clash = {} THEN <<candidate_start, candidate_end>>
             ELSE Walk(future, MinEnd(clash), duration, rounds - 1)

\* The walk with a cap of 30 rounds.
Suggest_ThirtyRounds(data, instance, store, t) ==
    IF Validate(data, instance, store, t) # "conflict" THEN NoSuggestion
    ELSE Walk(FutureBookings(store, data.resource, t, instance),
              MaxEnd(OverlappingBookings(store, data.resource, data.start_time,
                                         data.end_time, instance)),
              data.end_time - data.start_time,
              30)

\* The walk with a cap of 10 rounds.
Suggest_TenRounds(data, instance, store, t) ==
    IF Validate(data, instance, store, t) # "conflict" THEN NoSuggestion
    ELSE Walk(FutureBookings(store, data.resource, t, instance),
              MaxEnd(OverlappingBookings(store, data.resource, data.start_time,
                                         data.end_time, instance)),
              data.end_time - data.start_time,
              10)

\* The suggestion validate() puts in the conflict error, or NoSuggestion.
Suggest(data, instance, store, t) ==
    IF Validate(data, instance, store, t) # "conflict" THEN NoSuggestion
    ELSE Walk(FutureBookings(store, data.resource, t, instance),
              MaxEnd(OverlappingBookings(store, data.resource, data.start_time,
                                         data.end_time, instance)),
              data.end_time - data.start_time,
              SuggestionRounds)

(***************************************************************************)
(* The conflict error's list of conflicting bookings.                      *)
(***************************************************************************)
\* Minutes of a day: strftime('%H:%M') keeps the time of day of an instant.
Day == 1440

\* f"{start_time.strftime('%Y-%m-%d %H:%M')} - {end_time.strftime('%H:%M')}":
\* the start with its date, the end as a time of day.
Describe(start_time, end_time) == <<start_time, end_time % Day>>

\* The first k rows in Meta.ordering = ['start_time'], as sequences; rows with
\* equal starts come in any order.
RECURSIVE Firsts(_, _)
Firsts(rows, k) ==
    IF k = 0 \/ rows = {} THEN {<<>>}
    ELSE UNION {{<<b>> \o rest : rest \in Firsts(rows \ {b}, k - 1)} :
                    b \in {x \in rows : \A y \in rows : x.start_time <= y.start_time}}

ShownConflicts == 3

\* Every overlapping booking described, without the slice.
ConflictDetails_All(overlapping) ==
    {[i \in 1..Len(rows) |-> Describe(rows[i].start_time, rows[i].end_time)] :
        rows \in Firsts(overlapping, Cardinality(overlapping))}

\* conflict_details: overlapping_bookings[:3], each described.
ConflictDetails(overlapping) ==
    {[i \in 1..Len(rows) |-> Describe(rows[i].start_time, rows[i].end_time)] :
        rows \in Firsts(overlapping, ShownConflicts)}

NoError == [suggestion |-> NoSuggestion, conflicts |-> <<>>]

\* What the ValidationError of validate() carries (empty unless the reason
\* is a conflict).
Errors(data, instance, store, t) ==
    IF Validate(data, instance, store, t) # "conflict" THEN {NoError}
    ELSE {[suggestion |-> Suggest(data, instance, store, t), conflicts |-> details] :
            details \in ConflictDetails(OverlappingBookings(store, data.resource,
                                            data.start_time, data.end_time, instance))}

(***************************************************************************)
(* Meta.unique_together = (resource, start_time, end_time, user): the      *)
(* serializer's unique-together validator (it runs before validate(), with *)
(* the read-only `user` field's default) and the table's unique index.     *)
(***************************************************************************)
\* A table without the unique set.
UniqueClash_Never(store, resource, start_time, end_time, user, exclude) == FALSE

\* unique_together = ('resource', 'start_time', 'end_time', 'user'): some
\* other row holds the four values.
UniqueClash(store, resource, start_time, end_time, user, exclude) ==
    \E b \in store : /\ b.id # exclude
                     /\ b.resource = resource
                     /\ b.start_time = start_time
                     /\ b.end_time = end_time
                     /\ b.user = user

\* The row an update writes when status is a read-only field.
Apply_StatusReadOnly(data, inst) ==
    [id |-> inst.id,
     user |-> inst.user,
     resource |-> IF Has(data, "resource") THEN data.resource ELSE inst.resource,
     start_time |-> IF Has(data, "start_time") THEN data.start_time ELSE inst.start_time,
     end_time |-> IF Has(data, "end_time") THEN data.end_time ELSE inst.end_time,
     status |-> inst.status]

\* The row an update writes when user is a writable field.
Apply_UserWritable(data, inst) ==
    [id |-> inst.id,
     user |-> IF Has(data, "user") THEN data.user ELSE inst.user,
     resource |-> IF Has(data, "resource") THEN data.resource ELSE inst.resource,
     start_time |-> IF Has(data, "start_time") THEN data.start_time ELSE inst.start_time,
     end_time |-> IF Has(data, "end_time") THEN data.end_time ELSE inst.end_time,
     status |-> IF Has(data, "status") THEN data.status ELSE inst.status]

\* The row an update writes: the instance with the payload's fields set
\* (user is read-only and is not among them).
Apply(data, inst) ==
    [id |-> inst.id,
     user |-> inst.user,
     resource |-> IF Has(data, "resource") THEN data.resource ELSE inst.resource,
     start_time |-> IF Has(data, "start_time") THEN data.start_time ELSE inst.start_time,
     end_time |-> IF Has(data, "end_time") THEN data.end_time ELSE inst.end_time,
     status |-> IF Has(data, "status") THEN data.status ELSE inst.status]

\* The row a create writes when the payload's user is taken.
NewRow_PayloadUser(id, user, data) ==
    [id |-> id,
     user |-> IF Has(data, "user") THEN data.user ELSE user,
     resource |-> data.resource,
     start_time |-> data.start_time,
     end_time |-> data.end_time,
     status |-> IF Has(data, "status") THEN data.status ELSE DefaultStatus]

\* The row a create writes: perform_create saves with user = request.user.
NewRow(id, user, data) ==
    [id |-> id,
     user |-> user,
     resource |-> data.resource,
     start_time |-> data.start_time,
     end_time |-> data.end_time,
     status |-> IF Has(data, "status") THEN data.status ELSE DefaultStatus]

\* serializer.is_valid() of a create: validators, then validate().
CreateVerdict(user, data, store, t) ==
    IF UniqueClash(store, data.resource, data.start_time, data.end_time, user, NoId)
    THEN "unique"
    ELSE Validate(data, NoId, store, t)

\* serializer.is_valid() of an update of inst.  A full update (PUT) checks the
\* unique set with the requesting user (the field default), a partial one
\* with the instance's user.
UpdateVerdict(user, inst, data, partial, store, t) ==
    LET row == Apply(data, inst)
        who == IF partial THEN inst.user ELSE user
    IN  IF UniqueClash(store, row.resource, row.start_time, row.end_time, who, inst.id)
        THEN "unique"
        ELSE Validate(data, inst.id, store, t)

\* Every authenticated user may access every booking.
MayAccess_Anyone(user, inst) == TRUE

\* get_object / check_object_permissions
MayAccess(user, inst) == user \in Staff \/ inst.user = user

(***************************************************************************)
(* Inputs.                                                                 *)
(***************************************************************************)
CreateData(t) ==
    {Payload(r, s, e, NoStatus) :
        r \in Resources, s \in Grid \cup {t + LeadTime - 1}, e \in Grid}

FullData ==
    {Payload(r, s, e, st) :
        r \in Resources, s \in Grid, e \in Grid, st \in Statuses \cup {NoStatus}}

PutData == {data \in FullData : data.status = NoStatus}

PartialData ==
    {Payload(NoResource, s, e, NoStatus) : s \in Grid \cup {NoTime}, e \in Grid \cup {NoTime}}
    \cup {Payload(NoResource, NoTime, NoTime, st) : st \in Statuses}
    \cup {Payload(r, NoTime, NoTime, NoStatus) : r \in Resources}
    \cup {Payload(NoResource, s, NoTime, st) : s \in Grid, st \in Statuses}

\* send_booking_notification_email(booking, subject, template): the kind of
\* the message and the booking it is built from.
Notice(kind, booking) == [kind |-> kind, id |-> booking.id, status |-> booking.status]

\* perform_update: the message of an update, from the status read before
\* save() and the saved booking.
UpdateNotice_SavedStatus(old_status, booking) == Notice("updated", booking)

UpdateNotice(old_status, booking) ==
    Notice(IF old_status # booking.status THEN "status_changed" ELSE "updated", booking)

\* The request handled last and its outcome (id: the booking it addressed or
\* created, NoId when a create is refused).  The payload, the suggested slot
\* and the listed conflicts are kept only when the request is noted.  sent:
\* the notifications the request sent, in order.
Response(note, op, user, id, data, partial, outcome, error, sent) ==
    [op |-> op, user |-> user, id |-> id,
     data |-> IF note THEN data ELSE EmptyPayload,
     partial |-> note /\ partial,
     outcome |-> outcome,
     suggestion |-> IF note THEN error.suggestion ELSE NoSuggestion,
     conflicts |-> IF note THEN error.conflicts ELSE <<>>,
     sent |-> sent,
     listed |-> {},
     availability |-> [r \in {} |-> "none"]]

NoResponse == Response(FALSE, "none", "none", NoId, EmptyPayload, FALSE, "none", NoError, <<>>)

Idle == [pc |-> "idle", user |-> "none", data |-> EmptyPayload, seen |-> {}, id |-> NoId]

(***************************************************************************)
(* Serialized request handlers (one request runs to completion).           *)
(***************************************************************************)
\* POST /bookings/ : BookingViewSet.create -> is_valid -> perform_create
CreateBooking(user, data, note) ==
    /\ handled < MaxRequests
    /\ LET verdict == CreateVerdict(user, data, bookings, now)
       IN  IF verdict = "valid"
           THEN /\ bookings' = bookings \cup {NewRow(nextId, user, data)}
                /\ nextId' = nextId + 1
                /\ last' = Response(note, "create", user, nextId, data, FALSE, "created", NoError,
                                    <<Notice("created", NewRow(nextId, user, data))>>)
           ELSE /\ UNCHANGED <<bookings, nextId>>
                /\ \E error \in IF verdict = "unique" THEN {NoError}
                                ELSE Errors(data, NoId, bookings, now) :
                       last' = Response(note, "create", user, NoId, data, FALSE, verdict,
                                        error, <<>>)
    /\ handled' = handled + 1
    /\ UNCHANGED <<now, inflight, resources>>

\* An update that saves the row before is_valid() has answered.
UpdateBooking_SaveFirst(user, id, data, partial, note) ==
    /\ handled < MaxRequests
    /\ id \in Ids(bookings)
    /\ LET inst == Instance(bookings, id)
           verdict == UpdateVerdict(user, inst, data, partial, bookings, now)
           row == Apply(data, inst)
       IN  IF ~MayAccess(user, inst)
           THEN /\ UNCHANGED bookings
                /\ last' = Response(note, "update", user, id, data, partial, "forbidden", NoError, <<>>)
           ELSE IF UniqueClash(bookings, row.resource, row.start_time,
                               row.end_time, row.user, id)
           THEN /\ UNCHANGED bookings
                /\ last' = Response(note, "update", user, id, data, partial, "integrity", NoError, <<>>)
           ELSE /\ bookings' = (bookings \ {inst}) \cup {row}
                /\ last' = Response(note, "update", user, id, data, partial,
                                    IF verdict = "valid" THEN "updated" ELSE verdict,
                                    NoError,
                                    IF verdict = "valid"
                                    THEN <<UpdateNotice(inst.status, row)>> ELSE <<>>)
    /\ handled' = handled + 1
    /\ UNCHANGED <<nextId, now, inflight, resources>>

\* PUT/PATCH /bookings/<id>/ : get_object -> is_valid -> perform_update
UpdateBooking(user, id, data, partial, note) ==
    /\ handled < MaxRequests
    /\ id \in Ids(bookings)
    /\ LET inst == Instance(bookings, id)
           verdict == UpdateVerdict(user, inst, data, partial, bookings, now)
           row == Apply(data, inst)
       IN  IF ~MayAccess(user, inst)
           THEN /\ UNCHANGED bookings
                /\ last' = Response(note, "update", user, id, data, partial, "forbidden", NoError, <<>>)
           ELSE IF verdict # "valid"
           THEN /\ UNCHANGED bookings
                /\ \E error \in IF verdict = "unique" THEN {NoError}
                                ELSE Errors(data, id, bookings, now) :
                       last' = Response(note, "update", user, id, data, partial, verdict,
                                        error, <<>>)
           ELSE IF UniqueClash(bookings, row.resource, row.start_time,
                               row.end_time, row.user, id)
           THEN /\ UNCHANGED bookings
                /\ last' = Response(note, "update", user, id, data, partial, "integrity", NoError, <<>>)
           ELSE /\ bookings' = (bookings \ {inst}) \cup {row}
                /\ last' = Response(note, "update", user, id, data, partial, "updated", NoError,
                                    <<UpdateNotice(inst.status, row)>>)
    /\ handled' = handled + 1
    /\ UNCHANGED <<nextId, now, inflight, resources>>

\* DELETE /bookings/<id>/ : get_object -> perform_destroy.  The data of a
\* noted delete is the booking removed.
DeleteBooking(user, id, note) ==
    /\ handled < MaxRequests
    /\ id \in Ids(bookings)
    /\ LET inst == Instance(bookings, id)
       IN  IF ~MayAccess(user, inst)
           THEN /\ UNCHANGED bookings
                /\ last' = Response(note, "delete", user, id, EmptyPayload, FALSE, "forbidden", NoError, <<>>)
           ELSE /\ bookings' = bookings \ {inst}
                /\ last' = Response(note, "delete", user, id,
                                    Payload(inst.resource, inst.start_time,
                                            inst.end_time, inst.status),
                                    FALSE, "deleted", NoError,
                                    <<Notice("cancelled", inst)>>)
    /\ handled' = handled + 1
    /\ UNCHANGED <<nextId, now, inflight, resources>>

\* GET /bookings/<id>/ : get_object (all bookings are looked up, then the
\* owner-or-staff test).
RetrieveBooking(user, id, note) ==
    /\ handled < MaxRequests
    /\ last' = Response(note, "retrieve", user, id, EmptyPayload, FALSE,
                        IF id \notin Ids(bookings) THEN "not_found"
                        ELSE IF ~MayAccess(user, Instance(bookings, id)) THEN "forbidden"
                        ELSE "retrieved",
                        NoError, <<>>)
    /\ handled' = handled + 1
    /\ UNCHANGED <<bookings, nextId, now, inflight, resources>>

\* get_queryset: every booking for staff, the user's own otherwise.
Queryset_All(user, store) == store

Queryset(user, store) ==
    IF user \in Staff THEN store ELSE {b \in store : b.user = user}

\* GET /bookings/ : the ids of the bookings of get_queryset().
ListBookings(user, note) ==
    /\ handled < MaxRequests
    /\ last' = [Response(note, "list", user, NoId, EmptyPayload, FALSE, "listed",
                         NoError, <<>>)
                    EXCEPT !.listed = Ids(Queryset(user, bookings))]
    /\ handled' = handled + 1
    /\ UNCHANGED <<bookings, nextId, now, inflight, resources>>

\* Time passes between requests.
Tick ==
    /\ \E t \in Clock : t > now /\ now' = t
    /\ UNCHANGED <<bookings, nextId, last, handled, inflight, resources>>

Create == \E user \in Users, data \in CreateData(now) : CreateBooking(user, data, FALSE)

Put == \E user \in Users, id \in Ids(bookings), data \in PutData :
           UpdateBooking(user, id, data, FALSE, FALSE)

Patch == \E user \in Users, id \in Ids(bookings), data \in FullData \cup PartialData :
             UpdateBooking(user, id, data, TRUE, FALSE)

Delete == \E user \in Users, id \in Ids(bookings) : DeleteBooking(user, id, FALSE)

Init ==
    /\ bookings = {}
    /\ nextId = 1
    /\ now = 0
    /\ last = NoResponse
    /\ handled = 0
    /\ inflight = [p \in Procs |-> Idle]
    /\ resources = AllResources

Next == Create \/ Put \/ Patch \/ Delete \/ Tick

Spec == Init /\ [][Next]_vars

(***************************************************************************)
(* One request against a populated table.  The table holds up to MaxSeed   *)
(* rows of one owner with a valid interval that respect the unique set     *)
(* (every such table is the result of creates followed by partial          *)
(* updates); the request is noted in `last`.                               *)
(***************************************************************************)
SeedOwner == "user1"

SeedRows ==
    {row \in [user : {SeedOwner}, resource : Resources, start_time : Grid,
              end_time : Grid, status : Statuses] : row.start_time < row.end_time}

WithId(row, id) ==
    [id |-> id, user |-> row.user, resource |-> row.resource,
     start_time |-> row.start_time, end_time |-> row.end_time, status |-> row.status]

\* The sets of at most n seed rows.
RECURSIVE SeedSets(_)
SeedSets(n) ==
    IF n = 0 THEN {{}}
    ELSE SeedSets(n - 1) \cup {rows \cup {row} : rows \in SeedSets(n - 1), row \in SeedRows}

\* The rows numbered 1..n.
Numbered(rows) ==
    LET n == Cardinality(rows)
        f == CHOOSE g \in [1..n -> rows] : \A i \in 1..n, j \in 1..n : i # j => g[i] # g[j]
    IN  {WithId(f[i], i) : i \in 1..n}

SeedStores ==
    {Numbered(rows) :
        rows \in {set \in SeedSets(MaxSeed) :
                    \A a \in set, b \in set :
                        a # b => \/ a.resource # b.resource
                                 \/ a.start_time # b.start_time
                                 \/ a.end_time # b.end_time}}

InitSeeded ==
    /\ bookings \in SeedStores
    /\ nextId = MaxSeed + 1
    /\ now \in Clock
    /\ last = NoResponse
    /\ handled = MaxRequests - 1
    /\ inflight = [p \in Procs |-> Idle]
    /\ resources = AllResources

NotedCreate == \E user \in Users, data \in CreateData(now) : CreateBooking(user, data, TRUE)

NotedPut == \E user \in Users, id \in Ids(bookings), data \in PutData :
                UpdateBooking(user, id, data, FALSE, TRUE)

NextSeeded == NotedCreate \/ NotedPut

SpecSeeded == InitSeeded /\ [][NextSeeded]_vars

(***************************************************************************)
(* One partial update or one delete against a populated table: a PATCH     *)
(* whose payload leaves out at least one of resource, start and end.       *)
(***************************************************************************)
NotedPatch == \E user \in Users, id \in Ids(bookings), data \in PartialData :
                  UpdateBooking(user, id, data, TRUE, TRUE)

NotedDelete == \E user \in Users, id \in Ids(bookings) : DeleteBooking(user, id, TRUE)

NextEdits == NotedPatch \/ NotedDelete

SpecEdits == InitSeeded /\ [][NextEdits]_vars

(***************************************************************************)
(* One request against the tables of the Slot Suggester's cases, all on    *)
(* resource r1 with instants of one afternoon: tables of up to MaxTable    *)
(* rows between 14:00 and 17:00, and chains of up to MaxChain back-to-back *)
(* confirmed rows of one length starting at 14:00.  The clock shows 12:00  *)
(* (every row is ahead) or 17:00 (the afternoon is over).                  *)
(***************************************************************************)
At(hour, minute) == 60 * hour + minute

TablePoints == {At(14, 0), At(15, 0), At(16, 0), At(17, 0)}

TableRows ==
    {row \in [user : {SeedOwner}, resource : {"r1"}, start_time : TablePoints,
              end_time : TablePoints, status : {"confirmed", "cancelled"}] :
        row.start_time < row.end_time}

\* The sets of at most n table rows.
RECURSIVE TableSets(_)
TableSets(n) ==
    IF n = 0 THEN {{}}
    ELSE TableSets(n - 1) \cup {rows \cup {row} : rows \in TableSets(n - 1), row \in TableRows}

TableStores ==
    {Numbered(rows) :
        rows \in {set \in TableSets(MaxTable) :
                    \A a \in set, b \in set :
                        a # b => \/ a.start_time # b.start_time
                                 \/ a.end_time # b.end_time}}

\* Lengths of the rows of a chain: half an hour, an hour, eleven hours.
ChainLengths == {LeadTime, 2 * LeadTime, 22 * LeadTime}

\* n back-to-back confirmed rows of one length, the first starting at 14:00.
Chain(n, length) ==
    {[id |-> i, user |-> SeedOwner, resource |-> "r1",
      start_time |-> At(14, 0) + (i - 1) * length,
      end_time |-> At(14, 0) + i * length,
      status |-> "confirmed"] : i \in 1..n}

ChainStores == {Chain(n, length) : n \in 1..MaxChain, length \in ChainLengths}

\* Requests on r1 between 14:00 and 17:00.
ProbePoints == {At(14, 0), At(14, 30), At(15, 0), At(16, 0), At(16, 30), At(17, 0)}

ProbeData ==
    {data \in {Payload("r1", s, e, NoStatus) : s \in ProbePoints, e \in ProbePoints} :
        data.start_time < data.end_time}

InitSuggester ==
    /\ bookings \in TableStores \cup ChainStores
    /\ nextId = Cardinality(bookings) + 1
    /\ now \in {At(12, 0), At(17, 0)}
    /\ last = NoResponse
    /\ handled = MaxRequests - 1
    /\ inflight = [p \in Procs |-> Idle]
    /\ resources = AllResources

ProbeCreate == \E user \in Users, data \in ProbeData : CreateBooking(user, data, TRUE)

ProbePut == \E user \in Users, id \in Ids(bookings), data \in ProbeData :
                UpdateBooking(user, id, data, FALSE, TRUE)

NextSuggester == ProbeCreate \/ ProbePut

SpecSuggester == InitSuggester /\ [][NextSuggester]_vars

(***************************************************************************)
(* One request of an ordinary user, a second ordinary user or an           *)
(* administrator against a table of up to MaxSeed rows of the two ordinary *)
(* users on r1: retrieve, list, full update, status-only update or delete. *)
(***************************************************************************)
Actors == {"user1", "user2", "admin"}

AccessRows ==
    {row \in [user : {"user1", "user2"}, resource : {"r1"}, start_time : Grid,
              end_time : Grid, status : {"pending", "cancelled"}] :
        row.start_time < row.end_time}

\* The sets of at most n access rows.
RECURSIVE AccessSets(_)
AccessSets(n) ==
    IF n = 0 THEN {{}}
    ELSE AccessSets(n - 1) \cup {rows \cup {row} : rows \in AccessSets(n - 1), row \in AccessRows}

AccessStores ==
    {Numbered(rows) :
        rows \in {set \in AccessSets(MaxSeed) :
                    \A a \in set, b \in set :
                        a # b => \/ a.user # b.user
                                 \/ a.start_time # b.start_time
                                 \/ a.end_time # b.end_time}}

AccessData ==
    {data \in PutData : data.resource = "r1"}
    \cup {Payload(NoResource, NoTime, NoTime, st) : st \in Statuses}

InitAccess ==
    /\ bookings \in AccessStores
    /\ nextId = MaxSeed + 1
    /\ now \in Clock
    /\ last = NoResponse
    /\ handled = MaxRequests - 1
    /\ inflight = [p \in Procs |-> Idle]
    /\ resources = AllResources

Retrieve == \E user \in Actors, id \in Ids(bookings) \cup {nextId} :
                RetrieveBooking(user, id, TRUE)

List == \E user \in Actors : ListBookings(user, TRUE)

Modify == \E user \in Actors, id \in Ids(bookings), data \in AccessData :
              UpdateBooking(user, id, data, ~EngineRuns(data), TRUE)

Remove == \E user \in Actors, id \in Ids(bookings) : DeleteBooking(user, id, TRUE)

NextAccess == Retrieve \/ List \/ Modify \/ Remove

SpecAccess == InitAccess /\ [][NextAccess]_vars

(***************************************************************************)
(* Two requests, each a delete or a create by any of the three users,      *)
(* against a table of up to MaxSeed rows of the two ordinary users on r1.  *)
(***************************************************************************)
InitFreed ==
    /\ bookings \in AccessStores
    /\ nextId = MaxSeed + 1
    /\ now \in Clock
    /\ last = NoResponse
    /\ handled = MaxRequests - 2
    /\ inflight = [p \in Procs |-> Idle]
    /\ resources = AllResources

Rebook == \E user \in Actors, data \in {d \in PutData : d.resource = "r1"} :
              CreateBooking(user, data, TRUE)

NextFreed == Remove \/ Rebook

SpecFreed == InitFreed /\ [][NextFreed]_vars

(***************************************************************************)
(* One create or update whose payload carries a value for `user`, by any   *)
(* of the three users, against a table of up to MaxSeed rows of the two    *)
(* ordinary users on r1.                                                   *)
(***************************************************************************)
Claimed == Actors \cup {NoUser}

OwnerCreate == \E user \in Actors, claimed \in Claimed,
                  data \in {d \in PutData : d.resource = "r1"} :
                   CreateBooking(user, WithUser(data, claimed), TRUE)

OwnerUpdate == \E user \in Actors, claimed \in Claimed, id \in Ids(bookings),
                  data \in AccessData :
                   UpdateBooking(user, id, WithUser(data, claimed), ~EngineRuns(data), TRUE)

NextOwner == OwnerCreate \/ OwnerUpdate

SpecOwner == InitAccess /\ [][NextOwner]_vars

(***************************************************************************)
(* Resources: reads by anyone, writes by staff.  The table holds any       *)
(* subset of the resources, each enabled or disabled, and bookings of the  *)
(* stored resources only (the foreign key).                                *)
(***************************************************************************)
Anonymous == "anonymous"

Callers == Actors \cup {Anonymous}

SafeMethods == {"GET", "HEAD", "OPTIONS"}

\* A permission that admits every request.
IsAdminOrReadOnly_Anyone(method, user) == TRUE

\* IsAdminOrReadOnly.has_permission
IsAdminOrReadOnly(method, user) ==
    IF method \in SafeMethods THEN TRUE ELSE user \in Staff

\* get_availability_status with every booking counted, ended or not.
AvailabilityStatus_Ended(is_available, rows, t) ==
    IF ~is_available THEN "unavailable"
    ELSE IF \E b \in rows : b.status = "confirmed" THEN "unavailable"
    ELSE IF \E b \in rows : b.status = "pending" THEN "pending"
    ELSE "available"

\* get_availability_status with the pending test first.
AvailabilityStatus_PendingFirst(is_available, rows, t) ==
    IF ~is_available THEN "unavailable"
    ELSE IF \E b \in rows : b.status = "pending" /\ b.end_time > t THEN "pending"
    ELSE IF \E b \in rows : b.status = "confirmed" /\ b.end_time > t THEN "unavailable"
    ELSE "available"

\* ResourceSerializer.get_availability_status; rows: obj.bookings.
AvailabilityStatus(is_available, rows, t) ==
    IF ~is_available THEN "unavailable"
    ELSE IF \E b \in rows : b.status = "confirmed" /\ b.end_time > t THEN "unavailable"
    ELSE IF \E b \in rows : b.status = "pending" /\ b.end_time > t THEN "pending"
    ELSE "available"

\* obj.bookings: the related bookings of a resource.
BookingsOf(store, r) == {b \in store : b.resource = r}

\* The serialized resources: availability_status of each one.
Serialized(names) ==
    [r \in names |-> AvailabilityStatus(resources[r], BookingsOf(bookings, r), now)]

\* data.resource: the resource the request addressed (NoResource for a list).
ResourceResponse(op, user, r, outcome, names) ==
    [Response(TRUE, op, user, NoId, Payload(r, NoTime, NoTime, NoStatus), FALSE,
              outcome, NoError, <<>>)
        EXCEPT !.listed = names, !.availability = Serialized(names)]

\* GET /resources/
ListResources(user) ==
    /\ handled < MaxRequests
    /\ last' = IF ~IsAdminOrReadOnly("GET", user)
               THEN ResourceResponse("resource_list", user, NoResource, "forbidden", {})
               ELSE ResourceResponse("resource_list", user, NoResource, "listed", DOMAIN resources)
    /\ handled' = handled + 1
    /\ UNCHANGED <<bookings, nextId, now, inflight, resources>>

\* GET /resources/{r}/
RetrieveResource(user, r) ==
    /\ handled < MaxRequests
    /\ last' = IF ~IsAdminOrReadOnly("GET", user)
               THEN ResourceResponse("resource_retrieve", user, r, "forbidden", {})
               ELSE IF r \notin DOMAIN resources
               THEN ResourceResponse("resource_retrieve", user, r, "not_found", {})
               ELSE ResourceResponse("resource_retrieve", user, r, "retrieved", {r})
    /\ handled' = handled + 1
    /\ UNCHANGED <<bookings, nextId, now, inflight, resources>>

\* POST /resources/ : the new row gets a key not in the table.
CreateResource(user, r, is_available) ==
    /\ handled < MaxRequests
    /\ r \notin DOMAIN resources
    /\ IF ~IsAdminOrReadOnly("POST", user)
       THEN /\ UNCHANGED resources
            /\ last' = ResourceResponse("resource_create", user, r, "forbidden", {})
       ELSE /\ resources' = [x \in DOMAIN resources \cup {r} |->
                                IF x = r THEN is_available ELSE resources[x]]
            /\ last' = ResourceResponse("resource_create", user, r, "created", {})
    /\ handled' = handled + 1
    /\ UNCHANGED <<bookings, nextId, now, inflight>>

\* PUT/PATCH /resources/{r}/ : the permission is checked before the lookup.
UpdateResource(user, r, is_available) ==
    /\ handled < MaxRequests
    /\ IF ~IsAdminOrReadOnly("PUT", user)
       THEN /\ UNCHANGED resources
            /\ last' = ResourceResponse("resource_update", user, r, "forbidden", {})
       ELSE IF r \notin DOMAIN resources
       THEN /\ UNCHANGED resources
            /\ last' = ResourceResponse("resource_update", user, r, "not_found", {})
       ELSE /\ resources' = [resources EXCEPT ![r] = is_available]
            /\ last' = ResourceResponse("resource_update", user, r, "updated", {})
    /\ handled' = handled + 1
    /\ UNCHANGED <<bookings, nextId, now, inflight>>

\* DELETE /resources/{r}/ : the bookings of the resource go with it
\* (on_delete=CASCADE).
DeleteResource(user, r) ==
    /\ handled < MaxRequests
    /\ IF ~IsAdminOrReadOnly("DELETE", user)
       THEN /\ UNCHANGED <<resources, bookings>>
            /\ last' = ResourceResponse("resource_delete", user, r, "forbidden", {})
       ELSE IF r \notin DOMAIN resources
       THEN /\ UNCHANGED <<resources, bookings>>
            /\ last' = ResourceResponse("resource_delete", user, r, "not_found", {})
       ELSE /\ resources' = [x \in DOMAIN resources \ {r} |-> resources[x]]
            /\ bookings' = bookings \ BookingsOf(bookings, r)
            /\ last' = ResourceResponse("resource_delete", user, r, "deleted", {})
    /\ handled' = handled + 1
    /\ UNCHANGED <<nextId, now, inflight>>

ResourceTables == UNION {[names -> BOOLEAN] : names \in SUBSET Resources}

InitResources ==
    /\ resources \in ResourceTables
    /\ bookings \in {store \in SeedStores : \A b \in store : b.resource \in DOMAIN resources}
    /\ nextId = MaxSeed + 1
    /\ now \in Clock
    /\ last = NoResponse
    /\ handled = MaxRequests - 1
    /\ inflight = [p \in Procs |-> Idle]

ResourceList == \E user \in Callers : ListResources(user)

ResourceRetrieve == \E user \in Callers, r \in Resources : RetrieveResource(user, r)

ResourceCreate == \E user \in Callers, r \in Resources, is_available \in BOOLEAN :
                      CreateResource(user, r, is_available)

ResourceUpdate == \E user \in Callers, r \in Resources, is_available \in BOOLEAN :
                      UpdateResource(user, r, is_available)

ResourceDelete == \E user \in Callers, r \in Resources : DeleteResource(user, r)

NextResources ==
    ResourceList \/ ResourceRetrieve \/ ResourceCreate \/ ResourceUpdate \/ ResourceDelete

SpecResources == InitResources /\ [][NextResources]_vars

(***************************************************************************)
(* Concurrent creates: is_valid() (the conflict query) and save() (the     *)
(* INSERT) of one request are two steps, and the steps of two requests     *)
(* interleave.  seen: the ids of the rows in the table when the request    *)
(* ran its queries.                                                        *)
(***************************************************************************)
BeginCreate(p, user, data) ==
    /\ inflight[p].pc = "idle"
    /\ LET verdict == CreateVerdict(user, data, bookings, now)
       IN  inflight' = [inflight EXCEPT ![p] =
                           [pc |-> IF verdict = "valid" THEN "validated" ELSE "rejected",
                            user |-> user, data |-> data,
                            seen |-> Ids(bookings), id |-> NoId]]
    /\ UNCHANGED <<bookings, nextId, now, last, handled, resources>>

FinishCreate(p) ==
    /\ inflight[p].pc = "validated"
    /\ LET user == inflight[p].user
           data == inflight[p].data
       IN  IF UniqueClash(bookings, data.resource, data.start_time, data.end_time,
                          user, NoId)
           THEN /\ inflight' = [inflight EXCEPT ![p].pc = "failed"]
                /\ UNCHANGED <<bookings, nextId>>
           ELSE /\ bookings' = bookings \cup {NewRow(nextId, user, data)}
                /\ nextId' = nextId + 1
                /\ inflight' = [inflight EXCEPT ![p].pc = "stored", ![p].id = nextId]
    /\ UNCHANGED <<now, last, handled, resources>>

Check == \E p \in Procs, user \in Users, data \in CreateData(now) : BeginCreate(p, user, data)

Insert == \E p \in Procs : FinishCreate(p)

NextConc == Check \/ Insert

SpecConc == Init /\ [][NextConc]_vars

(***************************************************************************)
(* Properties.                                                             *)
(***************************************************************************)
Active(b) == b.status # "cancelled" /\ b.status # "rejected"

\* The rows other than the one the last request addressed or created.
Others == {b \in bookings : b.id # last.id}

\* The last request was a create or an update that carried resource, start
\* and end.
FullWrite ==
    /\ last.op \in {"create", "update"}
    /\ last.data.resource # NoResource
    /\ last.data.start_time # NoTime
    /\ last.data.end_time # NoTime

\* An active row other than the written one, on the request's resource, whose
\* interval overlaps the request's.
Blocks(b) ==
    /\ b \in Others
    /\ b.resource = last.data.resource
    /\ Active(b)
    /\ b.start_time < last.data.end_time
    /\ last.data.start_time < b.end_time

\* C1: no two active bookings of one resource have overlapping half-open
\* intervals, after any sequence of serialized API writes.
C1_NoActiveOverlap ==
    \A a \in bookings, b \in bookings :
        (a.id # b.id /\ a.resource = b.resource /\ Active(a) /\ Active(b))
            => ~(a.start_time < b.end_time /\ b.start_time < a.end_time)

\* C2: with serialized admissions, an admitted create or update that carries
\* start, end and resource overlaps no other active booking of the resource
\* at the moment it is persisted.
C2_AdmittedWriteOverlapsNothing ==
    (FullWrite /\ last.outcome \in {"created", "updated"})
        => \A b \in bookings : ~Blocks(b)

C2_Witness ==
    /\ FullWrite
    /\ last.op = "update"
    /\ last.outcome = "updated"
    /\ \E b \in Others : b.resource = last.data.resource /\ Active(b)

\* C3: two concurrent creates can both pass the conflict check and both be
\* stored with overlapping intervals; whenever two stored rows of concurrent
\* creates are active and overlap on one resource, each request ran its check
\* before the other's row was inserted.
StoredRow(p) == CHOOSE b \in bookings : b.id = inflight[p].id

RaceOverlap(p, q) ==
    /\ p # q
    /\ inflight[p].pc = "stored"
    /\ inflight[q].pc = "stored"
    /\ StoredRow(p).resource = StoredRow(q).resource
    /\ Active(StoredRow(p))
    /\ Active(StoredRow(q))
    /\ StoredRow(p).start_time < StoredRow(q).end_time
    /\ StoredRow(q).start_time < StoredRow(p).end_time

C3_OverlapOnlyFromRace ==
    \A p \in Procs, q \in Procs :
        RaceOverlap(p, q)
            => /\ inflight[p].id \notin inflight[q].seen
               /\ inflight[q].id \notin inflight[p].seen

C3_Witness == \E p \in Procs, q \in Procs : RaceOverlap(p, q)

\* C4: every stored booking has end strictly after start, after any sequence
\* of API writes.
C4_EndAfterStart == \A b \in bookings : b.end_time > b.start_time

\* C5: the conflict check reports a conflict iff some stored booking has the
\* request's resource, a status other than cancelled and rejected, an id other
\* than the excluded one, start < request end and request start < end.
C5_ConflictIffOverlap ==
    (FullWrite /\ last.outcome \in {"conflict", "created", "updated", "integrity"})
        => (last.outcome = "conflict" <=> \E b \in bookings : Blocks(b))

C5_Witness ==
    /\ FullWrite
    /\ last.outcome = "created"
    /\ \E b \in Others : /\ b.resource # last.data.resource
                         /\ Active(b)
                         /\ b.start_time < last.data.end_time
                         /\ last.data.start_time < b.end_time

\* C6: a request adjacent to an active booking of its resource (its start is
\* that booking's end, or its end that booking's start) that passes the other
\* checks and overlaps no other active booking is admitted.
Adjacent(b) ==
    /\ b \in Others
    /\ b.resource = last.data.resource
    /\ Active(b)
    /\ (b.end_time = last.data.start_time \/ b.start_time = last.data.end_time)

C6_AdjacencyAdmitted ==
    (/\ FullWrite
     /\ last.outcome \notin {"forbidden", "unique", "lead_time", "ordering", "past"}
     /\ \E b \in bookings : Adjacent(b)
     /\ \A b \in Others :
            (b.resource = last.data.resource /\ Active(b))
                => (b.end_time <= last.data.start_time \/ last.data.end_time <= b.start_time))
        => last.outcome \in {"created", "updated", "integrity"}

C6_Witness ==
    /\ FullWrite
    /\ last.outcome = "created"
    /\ \E b \in bookings : Adjacent(b)

\* C7: a cancelled or rejected booking over [t1,t2) never blocks a new booking
\* of any user over the same interval of the same resource: the create is
\* persisted when it passes the time checks and no active booking overlaps it.
C7_InactiveNeverBlocks ==
    (/\ last.op = "create"
     /\ last.data.start_time >= now + LeadTime
     /\ last.data.start_time < last.data.end_time
     /\ \E b \in Others : /\ ~Active(b)
                          /\ b.resource = last.data.resource
                          /\ b.start_time = last.data.start_time
                          /\ b.end_time = last.data.end_time
     /\ \A b \in bookings : ~Blocks(b))
        => last.outcome = "created"

\* C8: an update of booking X that sends X's own resource, start and end
\* never reports a conflict against X itself: a conflict it reports is with
\* another booking, and the suggested start is the end of another booking.
Unchanged(x) ==
    /\ x.id = last.id
    /\ x.resource = last.data.resource
    /\ x.start_time = last.data.start_time
    /\ x.end_time = last.data.end_time

C8_SelfExclusion ==
    (/\ FullWrite
     /\ last.op = "update"
     /\ \E x \in bookings : Unchanged(x)
     /\ last.outcome = "conflict")
        => /\ \E b \in bookings : Blocks(b)
           /\ last.suggestion # NoSuggestion
                => \E b \in Others : /\ b.resource = last.data.resource
                                     /\ Active(b)
                                     /\ b.end_time = last.suggestion[1]

C8_Witness ==
    /\ FullWrite
    /\ last.op = "update"
    /\ last.outcome = "updated"
    /\ \E x \in bookings : Unchanged(x) /\ Active(x)

\* C8, second half: the suggestion of such an update may lie over X's own
\* interval (X is not in the walk's list).
C8_SuggestionOverOwnSlot ==
    /\ FullWrite
    /\ last.op = "update"
    /\ last.outcome = "conflict"
    /\ last.suggestion # NoSuggestion
    /\ \E x \in bookings : /\ Unchanged(x)
                           /\ Active(x)
                           /\ last.suggestion[1] < x.end_time
                           /\ x.start_time < last.suggestion[2]

\* C9: a new booking is rejected with the lead-time error iff its start is
\* strictly earlier than now + 30 minutes (of the requests validate() sees).
C9_LeadTimeBoundary ==
    (last.op = "create" /\ last.outcome # "unique")
        => (last.outcome = "lead_time" <=> last.data.start_time < now + LeadTime)

C9_Witness ==
    /\ last.op = "create"
    /\ last.data.start_time = now + LeadTime
    /\ last.outcome = "created"

\* C9, the rejected side of the boundary: a start of now + 29 minutes.
C9_JustTooSoon ==
    /\ last.op = "create"
    /\ last.data.start_time = now + LeadTime - 1
    /\ last.outcome = "lead_time"

\* C10 as stated: a new booking whose start is strictly before now is rejected
\* with the past-booking reason.
C10_PastReason ==
    (last.op = "create" /\ last.data.start_time < now) => last.outcome = "past"

\* C10 amended: a new booking whose start is strictly before now is rejected
\* whatever the conflict state, with the lead-time reason when validate() sees
\* it and never with the past-booking reason.
C10_PastStartRejected ==
    (last.op = "create" /\ last.data.start_time < now)
        => last.outcome \in {"lead_time", "unique"}

C10_Witness ==
    /\ last.op = "create"
    /\ last.data.start_time < now
    /\ last.data.start_time < last.data.end_time
    /\ last.outcome = "lead_time"
    /\ \E b \in bookings : Blocks(b)

\* C11: admission reports the first failing check in the order lead time
\* (creates only), ordering, past start (creates only), conflict; a request
\* that fails none of them is admitted (of the requests validate() sees).
LeadTimeFails == last.op = "create" /\ last.data.start_time < now + LeadTime

OrderingFails == last.data.start_time >= last.data.end_time

PastFails == last.op = "create" /\ last.data.start_time < now

ConflictFails == \E b \in bookings : Blocks(b)

FirstFailure ==
    IF LeadTimeFails THEN "lead_time"
    ELSE IF OrderingFails THEN "ordering"
    ELSE IF PastFails THEN "past"
    ELSE IF ConflictFails THEN "conflict"
    ELSE "none"

Admitted == last.outcome \in {"created", "updated", "integrity"}

C11_FirstFailureWins ==
    (FullWrite /\ last.outcome \notin {"forbidden", "unique"})
        => IF FirstFailure = "none" THEN Admitted ELSE last.outcome = FirstFailure

\* A create that fails the lead-time and the ordering checks together, and an
\* update that fails the ordering and the conflict checks together.
C11_Witness ==
    /\ FullWrite
    /\ last.outcome = "ordering"
    /\ ConflictFails

C11_LeadTimeBeforeOrdering ==
    /\ FullWrite
    /\ last.outcome = "lead_time"
    /\ OrderingFails
    /\ PastFails

\* C12: an update that carries start, end and resource is never rejected for
\* lead time or for a past start, whatever its start relative to now; it is
\* still rejected for ordering and for a conflict (of the updates validate()
\* sees).
C12_UpdatesExempt ==
    (FullWrite /\ last.op = "update" /\ last.outcome \notin {"forbidden", "unique"})
        => /\ last.outcome \notin {"lead_time", "past"}
           /\ OrderingFails => last.outcome = "ordering"
           /\ (~OrderingFails /\ ConflictFails) => last.outcome = "conflict"

\* An update whose start lies before now is stored.
C12_Witness ==
    /\ FullWrite
    /\ last.op = "update"
    /\ last.data.start_time < now
    /\ last.outcome = "updated"

\* An update whose start lies before now is rejected for a conflict.
C12_PastUpdateConflicts ==
    /\ FullWrite
    /\ last.op = "update"
    /\ last.data.start_time < now
    /\ last.outcome = "conflict"

\* C13: a partial update whose payload leaves out at least one of start, end
\* and resource runs none of the lead-time, ordering, past and conflict
\* checks: it is never rejected with one of those reasons, and unless the
\* unique set refuses it the row is stored with the payload's fields.
PartialWrite == last.op = "update" /\ ~FullWrite

Written == CHOOSE b \in bookings : b.id = last.id

C13_PartialSkipsEngine ==
    PartialWrite
        => /\ last.outcome \notin {"lead_time", "ordering", "past", "conflict"}
           /\ last.outcome \notin {"forbidden", "unique", "integrity"}
                => /\ last.outcome = "updated"
                   /\ last.data.resource # NoResource
                        => Written.resource = last.data.resource
                   /\ last.data.start_time # NoTime
                        => Written.start_time = last.data.start_time
                   /\ last.data.end_time # NoTime
                        => Written.end_time = last.data.end_time
                   /\ last.data.status # NoStatus
                        => Written.status = last.data.status

\* A partial update is stored although the row it leaves overlaps another
\* active row of the resource.
C13_Witness ==
    /\ PartialWrite
    /\ last.outcome = "updated"
    /\ Active(Written)
    /\ \E b \in Others : /\ b.resource = Written.resource
                         /\ Active(b)
                         /\ b.start_time < Written.end_time
                         /\ Written.start_time < b.end_time

\* A partial update is stored although the row it leaves has start >= end,
\* and one although its start lies before now.
C13_StoredUnordered ==
    /\ PartialWrite
    /\ last.outcome = "updated"
    /\ Written.start_time >= Written.end_time

C13_StoredPast ==
    /\ PartialWrite
    /\ last.outcome = "updated"
    /\ last.data.start_time # NoTime
    /\ last.data.start_time < now

\* C14: whenever the Slot Suggester returns an interval, the Conflict
\* Detector, called with the request's resource and excluded booking id,
\* reports no conflict for that interval (creates and updates, updates with
\* times in the past included).
Suggested == FullWrite /\ last.outcome = "conflict" /\ last.suggestion # NoSuggestion

C14_SuggestionIsFree ==
    Suggested
        => OverlappingBookings(bookings, last.data.resource, last.suggestion[1],
                               last.suggestion[2], last.id) = {}

\* C14 for new bookings only: the suggestion of a rejected create is free.
C14_CreateSuggestionIsFree ==
    (Suggested /\ last.op = "create")
        => OverlappingBookings(bookings, last.data.resource, last.suggestion[1],
                               last.suggestion[2], NoId) = {}

\* C15: a returned suggestion has the duration of the request, and no interval
\* of that duration that starts at or after the requested start and strictly
\* before the suggestion's start is free of active bookings of the resource.
Duration == last.data.end_time - last.data.start_time

\* The half hours from an instant up to, not including, another.  Every
\* instant of the tables and the requests is a half hour, so an interval is
\* free only if the one starting at the half hour at or before it is.
HalfHours(from, to) == {from + At(0, 30) * k : k \in 0 .. ((to - from - 1) \div At(0, 30))}

Conflicting == {b \in bookings : Blocks(b)}

Future ==
    {b \in Others : b.resource = last.data.resource /\ Active(b) /\ b.end_time > now}

ClashesAt(candidate) ==
    {b \in Future : b.start_time < candidate + Duration /\ candidate < b.end_time}

Latest(rows) == CHOOSE b \in rows : \A c \in rows : c.end_time <= b.end_time

Earliest(rows) == CHOOSE b \in rows : \A c \in rows : b.end_time <= c.end_time

\* The candidate start of round k (it stays once a round finds no clash).
Candidate[k \in 1..SuggestionRounds] ==
    IF k = 1 THEN Latest(Conflicting).end_time
    ELSE LET previous == Candidate[k - 1]
             clashes == ClashesAt(previous)
         IN  IF clashes = {} THEN previous ELSE Earliest(clashes).end_time

Scanned ==
    LET final == Candidate[SuggestionRounds]
    IN  IF ClashesAt(final) = {} THEN <<final, final + Duration>> ELSE NoSuggestion

ActiveIntervals ==
    {<<b.start_time, b.end_time>> :
        b \in {x \in Others : x.resource = last.data.resource /\ Active(x)}}

Requested(start_time, end_time) ==
    /\ FullWrite
    /\ last.outcome \notin {"forbidden", "unique", "lead_time"}
    /\ last.data.start_time = start_time
    /\ last.data.end_time = end_time

ScenarioA ==
    /\ Requested(At(15, 0), At(17, 0))
    /\ ActiveIntervals = {<<At(14, 0), At(16, 0)>>}

ScenarioB ==
    /\ Requested(At(14, 30), At(16, 30))
    /\ ActiveIntervals = {<<At(14, 0), At(15, 0)>>, <<At(16, 0), At(17, 0)>>}

C16_GreedyScan ==
    /\ (FullWrite /\ last.outcome = "conflict") => last.suggestion = Scanned
    /\ ScenarioA => /\ last.outcome = "conflict"
                    /\ last.suggestion = <<At(16, 0), At(18, 0)>>
    /\ ScenarioB => /\ last.outcome = "conflict"
                    /\ last.suggestion = <<At(17, 0), At(19, 0)>>

C16_Witness == ScenarioB /\ last.op = "create"

C16_ScenarioA == ScenarioA /\ last.op = "create"

\* A scan that moves the candidate more than once before it finds the slot.
C16_SeveralRounds ==
    /\ Suggested
    /\ Candidate[1] # Candidate[2]
    /\ Candidate[2] # Candidate[3]

\* C17 as stated: when the active bookings of the resource cover, without a
\* gap, more than 20 times the requested duration after the conflict (from
\* the end of the latest conflicting booking on), no suggestion is returned.
Rejected == FullWrite /\ last.outcome = "conflict"

Seed == Latest(Conflicting).end_time

ActiveOthers == {b \in Others : b.resource = last.data.resource /\ Active(b)}

\* Every half hour from an instant up to another lies in a row of the set.
Covered(rows, from, to) ==
    \A t \in HalfHours(from, to) : \E b \in rows : b.start_time <= t /\ t < b.end_time

C17_CapReached ==
    (Rejected /\ Covered(ActiveOthers, Seed, Seed + SuggestionRounds * Duration + At(0, 30)))
        => last.suggestion = NoSuggestion

\* C17 amended: when active bookings of the resource that end after now, each
\* no longer than the requested duration, cover without a gap 20 times the
\* requested duration from the end of the latest conflicting booking on, no
\* suggestion is returned (each of the 20 rounds finds a clash).
ShortFuture == {b \in Future : b.end_time - b.start_time <= Duration}

C17_CapReachedOnShortRows ==
    (Rejected /\ Covered(ShortFuture, Seed, Seed + SuggestionRounds * Duration))
        => last.suggestion = NoSuggestion

C17_Witness ==
    /\ Rejected
    /\ Covered(ShortFuture, Seed, Seed + SuggestionRounds * Duration)
    /\ last.suggestion = NoSuggestion

\* Two long rows cover more than 20 times the duration and the second round
\* finds the slot behind them.
C17_SuggestionBehindLongRows ==
    /\ Rejected
    /\ last.op = "create"
    /\ Covered(ActiveOthers, Seed, Seed + SuggestionRounds * Duration + At(0, 30))
    /\ last.suggestion # NoSuggestion

\* C18: a conflict rejection lists min(3, n) conflict intervals, n >= 1 the
\* number of bookings the Conflict Detector found, and the listed intervals
\* are the descriptions (start, end as a time of day) of that many distinct
\* bookings that overlap the request.
Min(a, b) == IF a <= b THEN a ELSE b

C18_ConflictList ==
    Rejected
        => /\ Cardinality(Conflicting) >= 1
           /\ Len(last.conflicts) = Min(ShownConflicts, Cardinality(Conflicting))
           /\ \E listed \in [1..Len(last.conflicts) -> Conflicting] :
                  /\ \A i \in 1..Len(last.conflicts), j \in 1..Len(last.conflicts) :
                         i # j => listed[i] # listed[j]
                  /\ \A i \in 1..Len(last.conflicts) :
                         last.conflicts[i] = Describe(listed[i].start_time, listed[i].end_time)

\* More than three bookings overlap the request and three are listed.
C18_Witness ==
    /\ Rejected
    /\ Cardinality(Conflicting) > ShownConflicts
    /\ Len(last.conflicts) = ShownConflicts

\* Two bookings overlap the request and both are listed.
C18_TwoListed ==
    /\ Rejected
    /\ Cardinality(Conflicting) = 2
    /\ Len(last.conflicts) = 2

\* C19: a create or an update rejected for lead time, ordering, a past start
\* or a conflict leaves the stored bookings, and every field of each, as they
\* were and sends no notification.
RejectedByEngine == last.outcome \in {"lead_time", "ordering", "past", "conflict"}

C19_RejectionChangesNothing ==
    [][(handled' # handled /\ RejectedByEngine')
          => (bookings' = bookings /\ nextId' = nextId /\ last'.sent = <<>>)]_vars

\* An update of a stored booking is rejected for a conflict.
C19_Witness ==
    /\ last.op = "update"
    /\ last.outcome = "conflict"
    /\ last.sent = <<>>
    /\ Cardinality(bookings) >= 2

\* C20: every accepted write sends exactly one notification, built from the
\* persisted booking for a create and an update: created for a create; for
\* an update, status_changed when the status stored before the update differs
\* from the status stored after it and updated otherwise; cancelled for a
\* delete.
Before == CHOOSE b \in bookings : b.id = last'.id

After == CHOOSE b \in bookings' : b.id = last'.id

C20_OneNotification ==
    [][handled' # handled
          => /\ last'.outcome = "created"
                  => /\ last'.id \in Ids(bookings') \ Ids(bookings)
                     /\ last'.sent = <<[kind |-> "created", id |-> last'.id,
                                        status |-> After.status]>>
             /\ last'.outcome = "updated"
                  => /\ last'.id \in Ids(bookings')
                     /\ last'.sent =
                            <<[kind |-> IF Before.status # After.status
                                        THEN "status_changed" ELSE "updated",
                               id |-> last'.id, status |-> After.status]>>
             /\ last'.outcome = "deleted"
                  => /\ last'.id \notin Ids(bookings')
                     /\ last'.sent = <<[kind |-> "cancelled", id |-> last'.id,
                                        status |-> Before.status]>>]_vars

\* An update that changes the status has sent status_changed.
C20_Witness ==
    /\ last.op = "update"
    /\ last.outcome = "updated"
    /\ Len(last.sent) = 1
    /\ last.sent[1].kind = "status_changed"

\* An update whose payload sets a start together with a new status has sent
\* status_changed; an update that leaves the status as it was has sent
\* updated; a delete has sent cancelled.
C20_StatusAndTimeChanged ==
    /\ PartialWrite
    /\ last.outcome = "updated"
    /\ last.data.start_time # NoTime
    /\ last.data.status # NoStatus
    /\ last.sent = <<[kind |-> "status_changed", id |-> last.id, status |-> last.data.status]>>

C20_DetailsUpdated ==
    /\ last.outcome = "updated"
    /\ last.sent = <<[kind |-> "updated", id |-> last.id, status |-> Written.status]>>

C20_DeleteNotified ==
    /\ last.outcome = "deleted"
    /\ Len(last.sent) = 1
    /\ last.sent[1].kind = "cancelled"

\* C21: a non-administrator's retrieve, update or delete of another user's
\* existing booking is refused with a permission error, not a not-found, and
\* changes nothing; the owner's and an administrator's are not refused for
\* permission.  A non-administrator's listing is exactly their own bookings,
\* an administrator's every booking.
Addressed == last'.op \in {"retrieve", "update", "delete"} /\ last'.id \in Ids(bookings)

Outsider == last'.user \notin Staff /\ Before.user # last'.user

C21_OwnerOrAdministrator ==
    [][handled' # handled
          => /\ Addressed => (last'.outcome = "forbidden" <=> Outsider)
             /\ last'.outcome \in {"forbidden", "not_found"}
                    => (bookings' = bookings /\ last'.sent = <<>>)
             /\ last'.outcome = "not_found" => last'.id \notin Ids(bookings)
             /\ last'.op = "list"
                    => last'.listed =
                          {b.id : b \in {x \in bookings : \/ last'.user \in Staff
                                                          \/ x.user = last'.user}}]_vars

\* An ordinary user's update of another user's booking is refused.
C21_Witness ==
    /\ last.op = "update"
    /\ last.outcome = "forbidden"
    /\ last.user \notin Staff
    /\ \E b \in bookings : b.id = last.id /\ b.user # last.user

\* An ordinary user lists their own bookings and not the other user's; an
\* administrator deletes an ordinary user's booking.
C21_OwnListing ==
    /\ last.op = "list"
    /\ last.user \notin Staff
    /\ last.listed # {}
    /\ last.listed # Ids(bookings)

C21_AdministratorDeletes ==
    /\ last.op = "delete"
    /\ last.user \in Staff
    /\ last.outcome = "deleted"

\* C22: for every pair (old, new) of statuses, a status-only update of a
\* booking by its owner or an administrator is accepted and the stored status
\* becomes new (the other fields stay).
StatusOnly ==
    /\ last'.op = "update"
    /\ last'.data.status # NoStatus
    /\ last'.data.resource = NoResource
    /\ last'.data.start_time = NoTime
    /\ last'.data.end_time = NoTime

C22_AnyTransition ==
    [][(handled' # handled /\ StatusOnly /\ ~Outsider)
          => /\ last'.outcome = "updated"
             /\ After = [Before EXCEPT !.status = last'.data.status]
             /\ bookings' \ {After} = bookings \ {Before}]_vars

\* A cancelled or rejected booking is made pending or confirmed again, and a
\* booking is given the status it already has.
C22_Witness ==
    /\ last.op = "update"
    /\ last.data.status \in {"pending", "confirmed"}
    /\ last.data.start_time = NoTime
    /\ last.outcome = "updated"
    /\ Written.status = last.data.status
    /\ last.sent[1].kind = "status_changed"
    /\ \E b \in Others : b.resource = Written.resource /\ Active(b)
                          /\ b.start_time < Written.end_time
                          /\ Written.start_time < b.end_time

C22_SameStatus ==
    /\ last.op = "update"
    /\ last.data.status # NoStatus
    /\ last.data.start_time = NoTime
    /\ last.outcome = "updated"
    /\ last.sent[1].kind = "updated"

\* The bookings of resource r that are confirmed or pending and end after now.
Live(r, status) ==
    {b \in bookings : b.resource = r /\ b.status = status /\ b.end_time > now}

\* The last request read resources and was answered with them.
ResourceRead ==
    /\ last.op \in {"resource_list", "resource_retrieve"}
    /\ last.outcome \in {"listed", "retrieved"}

\* C23: the availability_status of every resource a read returns is
\* 'unavailable' when the resource is disabled or has a confirmed booking
\* ending after now, otherwise 'pending' when it has a pending booking ending
\* after now, otherwise 'available'; the cancelled, the rejected and the ended
\* bookings of the resource have no part in it.
C23_AvailabilityStatus ==
    ResourceRead =>
        \A r \in last.listed :
            last.availability[r] =
                IF ~resources[r] \/ Live(r, "confirmed") # {} THEN "unavailable"
                ELSE IF Live(r, "pending") # {} THEN "pending"
                ELSE "available"

\* A resource with an ended confirmed booking and a pending one still to end
\* is read as 'pending'.
C23_Witness ==
    /\ ResourceRead
    /\ \E r \in last.listed :
          /\ last.availability[r] = "pending"
          /\ \E b \in bookings : /\ b.resource = r
                                 /\ b.status = "confirmed"
                                 /\ b.end_time <= now

\* The conflict query finds a stored active booking of the interval
\* [a_start, a_end) when [b_start, b_end) is requested on its resource.
Overlaps(a_start, a_end, b_start, b_end) ==
    LET stored == [id |-> nextId, user |-> SeedOwner, resource |-> "r1",
                   start_time |-> a_start, end_time |-> a_end, status |-> DefaultStatus]
    IN  OverlappingBookings({stored}, "r1", b_start, b_end, NoId) # {}

\* C24: for a request with start < end and every other active booking of the
\* requested resource, the conflict query finds the booking for the request
\* exactly when it would find the request, once stored, for the booking's
\* interval: overlaps(A, B) = overlaps(B, A).
C24_OverlapSymmetry ==
    (FullWrite /\ last.data.start_time < last.data.end_time)
        => \A b \in ActiveOthers :
               /\ Overlaps(b.start_time, b.end_time,
                           last.data.start_time, last.data.end_time)
                    = Overlaps(last.data.start_time, last.data.end_time,
                               b.start_time, b.end_time)
               /\ Blocks(b) = Overlaps(b.start_time, b.end_time,
                                       last.data.start_time, last.data.end_time)

\* A request rejected for a booking that starts before it and ends inside or
\* at the end of it, and a request next to a booking that is not found.
C24_Witness ==
    /\ Rejected
    /\ \E b \in ActiveOthers : /\ b.start_time < last.data.start_time
                               /\ last.data.start_time < b.end_time

C24_Adjacent ==
    /\ FullWrite
    /\ last.outcome \in {"created", "updated"}
    /\ \E b \in ActiveOthers : b.end_time = last.data.start_time

ResourceWrites == {"resource_create", "resource_update", "resource_delete"}

\* C25: a create, update or delete of a resource by a caller who is not
\* staff, unauthenticated callers included, is refused and leaves the
\* resources (and their bookings) as they were; by staff it is carried out
\* when the resource addressed exists; a list or retrieve is answered for
\* every caller, the list with every stored resource and the retrieve with
\* the resource addressed when it is stored.
C25_StaffWritesAnyoneReads ==
    [][(handled' # handled)
          => LET r == last'.data.resource
             IN  /\ (last'.op \in ResourceWrites /\ last'.user \notin Staff)
                      => /\ last'.outcome = "forbidden"
                         /\ resources' = resources
                         /\ bookings' = bookings
                 /\ resources' # resources => last'.user \in Staff
                 /\ (last'.op = "resource_create" /\ last'.user \in Staff)
                      => /\ last'.outcome = "created"
                         /\ DOMAIN resources' = DOMAIN resources \cup {r}
                 /\ (last'.op = "resource_update" /\ last'.user \in Staff
                       /\ r \in DOMAIN resources)
                      => /\ last'.outcome = "updated"
                         /\ DOMAIN resources' = DOMAIN resources
                 /\ (last'.op = "resource_delete" /\ last'.user \in Staff
                       /\ r \in DOMAIN resources)
                      => /\ last'.outcome = "deleted"
                         /\ DOMAIN resources' = DOMAIN resources \ {r}
                 /\ last'.op = "resource_list"
                      => /\ last'.outcome = "listed"
                         /\ last'.listed = DOMAIN resources
                 /\ last'.op = "resource_retrieve"
                      => IF r \in DOMAIN resources
                         THEN last'.outcome = "retrieved" /\ last'.listed = {r}
                         ELSE last'.outcome = "not_found"]_vars

\* An unauthenticated caller's delete of a stored resource is refused.
C25_Witness ==
    /\ last.op = "resource_delete"
    /\ last.user = Anonymous
    /\ last.outcome = "forbidden"
    /\ last.data.resource \in DOMAIN resources

\* An unauthenticated caller lists the resources; an ordinary user's create
\* is refused; the administrator disables a resource.
C25_AnonymousLists ==
    /\ last.op = "resource_list"
    /\ last.user = Anonymous
    /\ last.listed = Resources

C25_UserCreateRefused ==
    /\ last.op = "resource_create"
    /\ last.user \in Actors \ Staff
    /\ last.outcome = "forbidden"

C25_AdministratorDisables ==
    /\ last.op = "resource_update"
    /\ last.user \in Staff
    /\ last.outcome = "updated"
    /\ ~resources[last.data.resource]

\* The candidate starts of the rounds 1..SuggestionRounds, in order.
RECURSIVE CandidatesFrom(_)
CandidatesFrom(starts) ==
    IF Len(starts) = SuggestionRounds THEN starts
    ELSE LET previous == starts[Len(starts)]
             clashes == ClashesAt(previous)
         IN  CandidatesFrom(Append(starts, IF clashes = {} THEN previous
                                            ELSE Earliest(clashes).end_time))

Candidates == CandidatesFrom(<<Latest(Conflicting).end_time>>)

\* C26: the scan of a rejected request ends within 20 rounds.  Every round
\* that finds a clash moves the candidate start strictly forward; a returned
\* suggestion is the candidate of one of the 20 rounds, it starts strictly
\* after the requested start and at the end of an active booking of the
\* resource; and no suggestion is returned exactly when the candidate of each
\* of the 20 rounds clashes with an active booking that ends after now.
C26_BoundedScan ==
    Rejected
        => LET starts == Candidates
               clashing == {k \in 1 .. SuggestionRounds : ClashesAt(starts[k]) # {}}
           IN  /\ \A k \in clashing \ {SuggestionRounds} : starts[k + 1] > starts[k]
               /\ last.suggestion # NoSuggestion
                    => /\ last.suggestion[1] > last.data.start_time
                       /\ \E b \in ActiveOthers : b.end_time = last.suggestion[1]
                       /\ \E k \in (1 .. SuggestionRounds) \ clashing :
                              last.suggestion[1] = starts[k]
               /\ last.suggestion = NoSuggestion <=> clashing = 1 .. SuggestionRounds

\* The slot is found in the last of the 20 rounds.
C26_Witness ==
    /\ Suggested
    /\ Candidates[SuggestionRounds] # Candidates[SuggestionRounds - 1]
    /\ last.suggestion[1] = Candidates[SuggestionRounds]

\* Every one of the 20 candidates clashes and nothing is suggested.
C26_CapReached ==
    /\ Rejected
    /\ last.suggestion = NoSuggestion
    /\ \A k \in 1 .. SuggestionRounds : ClashesAt(Candidates[k]) # {}

\* The create request for the suggested slot of the last request.
Resubmitted ==
    Payload(last.data.resource, last.suggestion[1], last.suggestion[2], NoStatus)

\* C27: when a create is rejected for a conflict with a suggestion, the same
\* user's create for the suggested interval on the same resource, at the
\* same instant and against the same table (the rejection changed nothing),
\* is valid for the serializer and is stored.
C27_ResubmitAdmitted ==
    (Suggested /\ last.op = "create")
        => /\ CreateVerdict(last.user, Resubmitted, bookings, now) = "valid"
           /\ ~UniqueClash(bookings, Resubmitted.resource, Resubmitted.start_time,
                           Resubmitted.end_time, last.user, NoId)

\* The part of C27 that holds: the suggested slot of a rejected create passes
\* the lead-time, ordering, past and conflict checks of validate().
C27_ResubmitPassesChecks ==
    (Suggested /\ last.op = "create")
        => Validate(Resubmitted, NoId, bookings, now) = "valid"

\* The requester owns a cancelled booking of exactly the suggested slot.
C27_OwnCancelledAtSuggestion ==
    /\ Suggested
    /\ last.op = "create"
    /\ \E b \in bookings : /\ b.user = last.user
                           /\ ~Active(b)
                           /\ b.resource = last.data.resource
                           /\ <<b.start_time, b.end_time>> = last.suggestion

\* The last request deleted an active booking, and the booking it deleted.
Deleted == last.op = "delete" /\ last.outcome = "deleted"

\* The step is a create for the resource and the interval of the active
\* booking the request before it deleted.
RebooksDeleted ==
    /\ Deleted
    /\ last.data.status \notin Inactive
    /\ handled' # handled
    /\ last'.op = "create"
    /\ last'.data.resource = last.data.resource
    /\ last'.data.start_time = last.data.start_time
    /\ last'.data.end_time = last.data.end_time

\* C28: a create for the resource and interval of an active booking deleted
\* just before, which passes the time checks and overlaps no other active
\* booking, is admitted.
C28_DeleteFreesSlot ==
    [][(/\ RebooksDeleted
        /\ last'.data.start_time >= now + LeadTime
        /\ last'.data.start_time < last'.data.end_time
        /\ OverlappingBookings(bookings, last'.data.resource, last'.data.start_time,
                               last'.data.end_time, NoId) = {})
          => last'.outcome = "created"]_vars

\* The parts of C28 that hold.  A deleted booking is out of the table; the
\* create after it lists as conflicts only bookings still stored, and its
\* suggestion is the scan over the bookings still stored; and the create for
\* the freed slot is admitted unless the requester owns another booking of
\* exactly that resource and interval.
C28_DeletedIsGone ==
    [][/\ (handled' # handled /\ last'.op = "delete" /\ last'.outcome = "deleted")
            => last'.id \notin Ids(bookings')
       /\ (Deleted /\ handled' # handled /\ last'.op = "create")
            => /\ last.id \notin Ids(bookings')
               /\ last'.outcome = "conflict"
                    => /\ \A i \in 1..Len(last'.conflicts) :
                              \E b \in bookings :
                                  /\ b.id # last.id
                                  /\ last'.conflicts[i] = Describe(b.start_time, b.end_time)
                       /\ last'.suggestion
                            = Suggest(last'.data, NoId, bookings, now)
       /\ (/\ RebooksDeleted
           /\ last'.data.start_time >= now + LeadTime
           /\ last'.data.start_time < last'.data.end_time
           /\ OverlappingBookings(bookings, last'.data.resource, last'.data.start_time,
                                  last'.data.end_time, NoId) = {}
           /\ ~UniqueClash(bookings, last'.data.resource, last'.data.start_time,
                           last'.data.end_time, last'.user, NoId))
            => last'.outcome = "created"]_vars

\* The freed slot is booked again by the user who deleted the booking.
C28_Rebooked ==
    /\ last.op = "create"
    /\ last.outcome = "created"
    /\ nextId = MaxSeed + 2
    /\ Cardinality(bookings) = 1

\* The create for the freed slot is refused for the unique set.
C28_RefusedForUniqueSet ==
    /\ last.op = "create"
    /\ last.outcome = "unique"
    /\ \A b \in bookings : ~Active(b)

\* C29: no two stored bookings, whatever their status, have the same
\* resource, start, end and user.
C29_UniqueSet ==
    \A a \in bookings, b \in bookings :
        a.id # b.id => \/ a.resource # b.resource
                       \/ a.start_time # b.start_time
                       \/ a.end_time # b.end_time
                       \/ a.user # b.user

\* A create is refused for the unique set while the requester's booking of
\* the same resource and interval is stored.
C29_Witness ==
    /\ last.op = "create"
    /\ last.outcome = "unique"
    /\ bookings # {}

\* An update is refused by the unique index on save.
C29_UpdateRefusedOnSave ==
    /\ last.op = "update"
    /\ last.outcome = "integrity"

\* The row a noted create or update would store.
Intended ==
    IF last'.op = "create" THEN NewRow(nextId, last'.user, last'.data)
    ELSE Apply(last'.data, Instance(bookings, last'.id))

\* C29, the refusal: a create or an update of a stored booking whose row
\* would repeat the resource, start, end and user of another stored booking
\* is refused and the table stays as it was.
C29_DuplicateRefused ==
    [][(/\ handled' # handled
        /\ last'.op \in {"create", "update"}
        /\ last'.op = "update" => last'.id \in Ids(bookings)
        /\ \E b \in bookings : /\ b.id # Intended.id
                               /\ b.resource = Intended.resource
                               /\ b.start_time = Intended.start_time
                               /\ b.end_time = Intended.end_time
                               /\ b.user = Intended.user)
          => /\ last'.outcome \notin {"created", "updated"}
             /\ bookings' = bookings]_vars

\* C30: the booking a create stores has the requesting user as its user,
\* whatever the payload's user value, and no update, by the owner or by an
\* administrator and whatever its payload's user value, changes the user of
\* a stored booking.
C30_OwnerIsCreator ==
    [][(handled' # handled)
          => /\ (last'.op = "create" /\ last'.outcome = "created")
                  => \E b \in bookings' : /\ b.id = last'.id
                                          /\ b.id \notin Ids(bookings)
                                          /\ b.user = last'.user
             /\ \A b \in bookings : \A c \in bookings' : c.id = b.id => c.user = b.user]_vars

\* A create whose payload names another user is stored for the requester.
C30_Witness ==
    /\ last.op = "create"
    /\ last.outcome = "created"
    /\ last.data.user \notin {NoUser, last.user}
    /\ \E b \in bookings : b.id = last.id /\ b.user = last.user

\* An administrator's full update whose payload names the administrator
\* leaves the booking with its owner.
C30_AdministratorUpdates ==
    /\ last.op = "update"
    /\ last.outcome = "updated"
    /\ ~last.partial
    /\ last.user \in Staff
    /\ last.data.user = last.user
    /\ \E b \in bookings : b.id = last.id /\ b.user # last.user

\* An owner's partial update whose payload names the other user.
C30_OwnerUpdates ==
    /\ last.op = "update"
    /\ last.outcome = "updated"
    /\ last.partial
    /\ last.user \notin Staff
    /\ last.data.user \notin {NoUser, last.user}
    /\ \E b \in bookings : b.id = last.id /\ b.user = last.user

====
